---- MODULE Spec2Model ----
(***************************************************************************)
(* A model of the scrape-job client (src/src/scraper.py) and of the        *)
(* request handler that drives the pipeline (src/src/app.py).              *)
(*                                                                         *)
(* Time is counted in whole seconds.  `elapsed` is time.time() -           *)
(* start_time of the running get_result call.  The job-execution backend   *)
(* (the webhook, or the managed job service reached through ApifyClient)   *)
(* is the environment: each of its replies is chosen nondeterministically  *)
(* when the client asks for it.                                            *)
(***************************************************************************)
EXTENDS Integers, Sequences, FiniteSets, TLC

(* ---------------------------------------------------------------- bounds *)
MaxTimeout == 3        \* largest Scraper._timeout explored
MaxPollInterval == 2   \* largest Scraper._poll_interval explored
MaxLatency == 1        \* longest time one status request may take
MaxItems == 2          \* longest dataset payload explored

(* ------------------------------------------------------- Python's values *)
None == "None"

\* Python truthiness of an optional string tested with `if x` / `if not x`:
\* None and the empty string are false.
Truthy(x) == x \notin {None, ""}

\* Truthiness of an optional dict (`if not run`).  The empty function <<>>
\* stands for both falsy replies, None and {}.
TruthyDict(d) == d # <<>>

\* dict.get(key, default)
DictGet(d, key, default) == IF key \in DOMAIN d THEN d[key] ELSE default

(* ------------------------------------------------------------ exceptions *)
\* Exception classes are named by strings.  HTTPError is httpx.HTTPError
\* (transport failures and raise_for_status), ValueError is what
\* response.json() raises on a body that is no JSON, ApifyApiError is the
\* managed client's own error.
\* isinstance(exception of class cls, handler class): RequestError and
\* ApifyClientError derive from Exception only, so `except httpx.HTTPError`
\* does not catch them.
Catches(handler, cls) == handler = "Exception" \/ handler = cls

(* ----------------------------------------------------------- result data *)
RequiredFields == {"url", "comments", "metadata"}

Video1 == [url |-> "u1", comments |-> <<"c1", "c2">>, metadata |-> [likes |-> 1]]
Video2 == [url |-> "u2", comments |-> <<>>, metadata |-> [views |-> 2], title |-> "t"]
NoUrl == [comments |-> <<"c1">>, metadata |-> [likes |-> 1]]
NoComments == [url |-> "u1", metadata |-> [likes |-> 1]]
NoMetadata == [url |-> "u2", comments |-> <<"c1">>]

\* The dataset items the backend may send: two well-formed ones (one with a
\* field VideoData does not declare) and one for each missing required field.
ItemUniverse == {Video1, Video2, NoUrl, NoComments, NoMetadata}

Payloads == UNION {[1..n -> ItemUniverse] : n \in 0..MaxItems}

\* VideoData(**item) succeeds iff every required field is given.
ItemValid(item) == RequiredFields \subseteq DOMAIN item

\* VideoData(**item): the three declared fields; undeclared ones are dropped.
VideoData(item) ==
    [url |-> item.url, comments |-> item.comments, metadata |-> item.metadata]

\* A faulty parser that keeps the items that validate and drops the others.
parse_result_partial(raw_data) ==
    LET items == DictGet(raw_data, "items", <<>>)
        good == SelectSeq(items, ItemValid)
    IN  [raises |-> FALSE, value |-> [i \in 1..Len(good) |-> VideoData(good[i])]]

\* Scraper._parse_result: one VideoData per item, in order; the first item
\* that fails validation makes the whole call raise.
parse_result(raw_data) ==
    LET items == DictGet(raw_data, "items", <<>>)
    IN  IF \A i \in 1..Len(items) : ItemValid(items[i])
        THEN [raises |-> FALSE,
              value |-> [i \in 1..Len(items) |-> VideoData(items[i])]]
        ELSE [raises |-> TRUE, value |-> <<>>]

\* What _parse_result raises: its `raise ValidationError(...)`, which under
\* pydantic 2 cannot be constructed from a message and surfaces as TypeError.
ParseErrors == {"ValidationError", "TypeError"}

(* ------------------------------------------------------------- the state *)
VARIABLES
    webhook_url,     \* Scraper.webhook_url: None, "" or the webhook's URL
    timeout,         \* Scraper._timeout
    poll_interval,   \* Scraper._poll_interval
    pc,              \* where the client is: "init", "submitted", "loop", "fetch", "done"
    submit,          \* how start_scrape ended
    job_id,          \* the argument of the running get_result call
    elapsed,         \* time.time() - start_time of the get_result call
    polls,           \* the status requests issued so far, oldest first
    fetched,         \* the raw payload handed to _parse_result, if any
    raised,          \* the exception class get_result raised, or None
    raised_status,   \* the backend status quoted in that exception's message
    returned,        \* TRUE once get_result has returned records
    result           \* the records get_result returned

scraper_vars ==
    <<webhook_url, timeout, poll_interval, pc, submit, job_id, elapsed, polls,
      fetched, raised, raised_status, returned, result>>

WebhookUrls == {None, "", "https://n8n.example/hook"}
JobIds == {"job1"}

NoSubmit == [state |-> "none", handle |-> None, raised |-> None, cause |-> None,
             reply |-> [raises |-> None, body |-> <<>>]]
NotFetched == [called |-> FALSE, raw |-> <<>>]

\* The request handler chat_endpoint (src/src/app.py).
VARIABLES
    doubles,          \* TRUE when the collaborators are the doubles of tests/test_api.py
    located,          \* what VideoFinder.get_videos returns for the request
    limit,            \* the request's limit
    cpc,              \* the handler's position: the next stage, or "responded"
    calls,            \* the collaborator methods called so far, in order
    video_urls,       \* get_videos(...)[:limit]
    started_job,      \* what scraper.start_scrape returned, None before it has
    get_result_args,  \* the positional arguments scraper.get_result was called with
    video_data_list,  \* what scraper.get_result returned
    exc,              \* the exception a stage raised, if any
    status_code,      \* the response's status, 0 while there is none
    detail            \* the detail of the HTTPException raised

chat_vars ==
    <<doubles, located, limit, cpc, calls, video_urls, started_job, get_result_args,
      video_data_list, exc, status_code, detail>>

NoException == [stage |-> None, cls |-> None, message |-> None]
NoDetail == [text |-> None, message |-> None]

\* The handler before any request: the value of its variables in the
\* behaviours that exercise the scraper alone.
ChatIdle ==
    /\ doubles = FALSE
    /\ located = <<>>
    /\ limit = 1
    /\ cpc = "idle"
    /\ calls = <<>>
    /\ video_urls = <<>>
    /\ started_job = None
    /\ get_result_args = <<>>
    /\ video_data_list = <<>>
    /\ exc = NoException
    /\ status_code = 0
    /\ detail = NoDetail

\* The emotion classifiers (src/src/text_emotion_analyzer.py and
\* src/src/audio_emotion_analyzer.py).
VARIABLES
    analyzer,         \* the classifier constructed: its credentials and its client
    analyze_calls     \* what each analyze call so far did, oldest first

emotion_vars == <<analyzer, analyze_calls>>

NoAnalyzer == [variant |-> None]

\* No classifier is constructed in the behaviours that exercise the scraper
\* or the request handler with its collaborators replaced.
EmotionIdle ==
    /\ analyzer = NoAnalyzer
    /\ analyze_calls = <<>>

\* Correlator.compute (src/src/correlator.py).
VARIABLES
    video_data,       \* compute's first argument: the scraped records
    text_scores,      \* compute's second argument
    audio_scores,     \* compute's third argument
    computed,         \* TRUE once compute has ended
    compute_raises,   \* the exception class compute raised, or None
    results           \* the dict compute returned, in hundredths

correlator_vars ==
    <<video_data, text_scores, audio_scores, computed, compute_raises, results>>

CorrelatorIdle ==
    /\ video_data = <<>>
    /\ text_scores = <<>>
    /\ audio_scores = <<>>
    /\ computed = FALSE
    /\ compute_raises = None
    /\ results = <<>>

\* VideoFinder (src/src/video_finder.py).
VARIABLES
    get_videos_calls  \* the get_videos calls so far with what each did, oldest first

finder_vars == <<get_videos_calls>>

FinderIdle == get_videos_calls = <<>>

\* InsightGenerator (src/src/insight_generator.py).
VARIABLES
    generator,        \* the generator constructed: its key and its client
    insight_calls     \* the generate and suggest_pr_hooks calls so far, oldest first

insight_vars == <<generator, insight_calls>>

InsightIdle ==
    /\ generator = [constructed |-> FALSE]
    /\ insight_calls = <<>>


ScraperInit ==
    /\ webhook_url \in WebhookUrls
    /\ timeout \in 0..MaxTimeout
    /\ poll_interval \in 1..MaxPollInterval
    /\ pc = "init"
    /\ submit = NoSubmit
    /\ job_id = None
    /\ elapsed = 0
    /\ polls = <<>>
    /\ fetched = NotFetched
    /\ raised = None
    /\ raised_status = None
    /\ returned = FALSE
    /\ result = <<>>

(* ----------------------------------------------------------- start_scrape *)
\* What the backend may answer to a submission.  Webhook: the POST or
\* raise_for_status raises httpx.HTTPError, response.json() raises
\* ValueError, or the JSON body comes with or without "job_id".  Managed
\* service: task_client.call raises, returns no run, or returns a run object
\* with or without "id".
SubmitReplies ==
    IF Truthy(webhook_url)
    THEN {[raises |-> e, body |-> <<>>] : e \in {"HTTPError", "ValueError"}}
         \cup {[raises |-> None, body |-> b] :
                 b \in {[job_id |-> j] : j \in JobIds} \cup {[message |-> "accepted"]}}
    ELSE {[raises |-> e, body |-> <<>>] : e \in {"HTTPError", "ApifyApiError"}}
         \cup {[raises |-> None, body |-> b] :
                 b \in {[id |-> j, status |-> "READY"] : j \in JobIds}
                       \cup {[status |-> "READY"], <<>>}}

\* The try block of start_scrape under the backend's reply.
start_scrape_try(reply) ==
    IF Truthy(webhook_url)
    THEN IF reply.raises # None
         THEN [raises |-> reply.raises, value |-> None]
         ELSE [raises |-> None, value |-> DictGet(reply.body, "job_id", None)]
    ELSE IF reply.raises # None
         THEN [raises |-> reply.raises, value |-> None]
         ELSE IF ~TruthyDict(reply.body)
              THEN [raises |-> "ApifyClientError", value |-> None]
              ELSE [raises |-> None, value |-> DictGet(reply.body, "id", None)]

\* Faulty handlers in which the `except Exception` clause comes first.
start_scrape_except_shadowed(cls) == "ApifyClientError"

\* The except clauses of start_scrape, in order.
start_scrape_except(cls) ==
    IF Catches("HTTPError", cls) THEN "RequestError" ELSE "ApifyClientError"

StartScrape ==
    /\ UNCHANGED <<chat_vars, emotion_vars, correlator_vars, finder_vars, insight_vars>>
    /\ pc = "init"
    /\ \E reply \in SubmitReplies :
         LET t == start_scrape_try(reply)
         IN  IF t.raises # None
             THEN /\ submit' = [state |-> "raised", handle |-> None,
                                raised |-> start_scrape_except(t.raises),
                                cause |-> t.raises, reply |-> reply]
                  /\ pc' = "done"
             ELSE /\ submit' = [state |-> "returned", handle |-> t.value,
                                raised |-> None, cause |-> None, reply |-> reply]
                  /\ pc' = "submitted"
    /\ UNCHANGED <<webhook_url, timeout, poll_interval, job_id, elapsed, polls,
                   fetched, raised, raised_status, returned, result>>

(* ------------------------------------------------------------- get_result *)
\* get_result(job_id) with the handle start_scrape returned: start_time is
\* taken, so elapsed is 0.
GetResult ==
    /\ UNCHANGED <<chat_vars, emotion_vars, correlator_vars, finder_vars, insight_vars>>
    /\ pc = "submitted"
    /\ job_id' = submit.handle
    /\ elapsed' = 0
    /\ pc' = "loop"
    /\ UNCHANGED <<webhook_url, timeout, poll_interval, submit, polls, fetched,
                   raised, raised_status, returned, result>>

\* What the webhook may answer to GET <webhook_url>/status/<job_id>: the
\* request raises httpx.HTTPError, the body is no JSON, or it is a JSON
\* object with a status, and, for a finished job, possibly its items.
WebhookStatuses == {"running", "failed", "completed"}

StatusReplies ==
    {[raises |-> e, body |-> <<>>] : e \in {"HTTPError", "ValueError"}}
    \cup {[raises |-> None, body |-> [status |-> s]] : s \in WebhookStatuses}
    \cup {[raises |-> None, body |-> [status |-> "completed", items |-> p]] :
            p \in Payloads}

\* Scraper._check_status on the webhook: httpx.HTTPError leaves it as
\* RequestError, any other exception as ApifyClientError.
check_status(reply) ==
    IF reply.raises = None
    THEN [raises |-> None, value |-> reply.body]
    ELSE IF Catches("HTTPError", reply.raises)
         THEN [raises |-> "RequestError", value |-> <<>>]
         ELSE [raises |-> "ApifyClientError", value |-> <<>>]

\* A faulty loop test that lets a poll start when the deadline is reached.
within_deadline_inclusive == elapsed <= timeout

\* The loop test of get_result: (time.time() - start_time) < self._timeout
within_deadline == elapsed < timeout

\* A faulty status test that takes every status but "running" for success.
is_completed_loose(status) == status # "running"

\* The success test of the polling loop: status == "completed"
is_completed(status) == status = "completed"

PollEntry(via, reply) ==
    [at |-> elapsed, job |-> job_id, via |-> via, reply |-> reply]

\* One round of the webhook loop: the status request (which takes d
\* seconds), then the return, the raise, or the sleep that ends the round.
WebhookPoll ==
    /\ UNCHANGED <<chat_vars, emotion_vars, correlator_vars, finder_vars, insight_vars>>
    /\ pc = "loop"
    /\ Truthy(webhook_url)
    /\ within_deadline
    /\ \E reply \in StatusReplies, d \in 0..MaxLatency, perr \in ParseErrors :
         LET checked == check_status(reply)
             status == DictGet(checked.value, "status", None)
             parsed == parse_result(checked.value)
         IN  /\ polls' = Append(polls, PollEntry("check_status", reply))
             /\ IF checked.raises # None
                THEN IF Catches("HTTPError", checked.raises)
                     THEN \* except httpx.HTTPError: sleep and retry
                          /\ pc' = "loop"
                          /\ elapsed' = elapsed + d + poll_interval
                          /\ UNCHANGED <<fetched, raised, returned, result>>
                     ELSE \* the exception leaves get_result
                          /\ pc' = "done"
                          /\ elapsed' = elapsed + d
                          /\ raised' = checked.raises
                          /\ UNCHANGED <<fetched, returned, result>>
                ELSE IF is_completed(status)
                     THEN /\ pc' = "done"
                          /\ elapsed' = elapsed + d
                          /\ fetched' = [called |-> TRUE, raw |-> checked.value]
                          /\ IF parsed.raises
                             THEN /\ raised' = perr
                                  /\ UNCHANGED <<returned, result>>
                             ELSE /\ returned' = TRUE
                                  /\ result' = parsed.value
                                  /\ UNCHANGED raised
                     ELSE \* not completed: sleep, then test the deadline again
                          /\ pc' = "loop"
                          /\ elapsed' = elapsed + d + poll_interval
                          /\ UNCHANGED <<fetched, raised, returned, result>>
    /\ UNCHANGED <<webhook_url, timeout, poll_interval, submit, job_id,
                   raised_status>>

\* The loop test fails: control reaches the final raise TimeoutError.
WebhookTimeout ==
    /\ UNCHANGED <<chat_vars, emotion_vars, correlator_vars, finder_vars, insight_vars>>
    /\ pc = "loop"
    /\ Truthy(webhook_url)
    /\ ~within_deadline
    /\ pc' = "done"
    /\ raised' = "TimeoutError"
    /\ UNCHANGED <<webhook_url, timeout, poll_interval, submit, job_id, elapsed,
                   polls, fetched, raised_status, returned, result>>

\* What run_client.wait_for_finish(wait_secs=timeout) may do: raise, return
\* no run, or return the run object, whose status is terminal or, when the
\* wait ran out first, still "RUNNING".
TerminalRunStatuses == {"SUCCEEDED", "FAILED", "ABORTED", "TIMED-OUT"}
RunStatuses == TerminalRunStatuses \cup {"RUNNING"}

WaitReplies ==
    {[raises |-> e, body |-> <<>>] : e \in {"TimeoutError", "ApifyApiError"}}
    \cup {[raises |-> None, body |-> <<>>]}
    \cup {[raises |-> None, body |-> [status |-> s]] : s \in RunStatuses}
    \cup {[raises |-> None, body |-> [status |-> s, defaultDatasetId |-> "ds1"]] :
            s \in RunStatuses}

\* The except clauses around the managed branch of get_result: TimeoutError
\* is re-raised as it is, everything else leaves as ApifyClientError.
get_result_except(cls) ==
    IF cls = "TimeoutError" THEN "TimeoutError" ELSE "ApifyClientError"

\* The managed branch up to the dataset fetch.  A run that is still RUNNING
\* is returned only when the whole wait has passed.
ApifyWait ==
    /\ UNCHANGED <<chat_vars, emotion_vars, correlator_vars, finder_vars, insight_vars>>
    /\ pc = "loop"
    /\ ~Truthy(webhook_url)
    /\ \E reply \in WaitReplies, d \in 0..timeout :
         LET run == reply.body
             status == DictGet(run, "status", "UNKNOWN")
         IN  /\ (reply.raises = None /\ TruthyDict(run) /\ status = "RUNNING")
                  => d = timeout
             /\ polls' = Append(polls, PollEntry("wait_for_finish", reply))
             /\ elapsed' = elapsed + d
             /\ IF reply.raises # None
                THEN /\ pc' = "done"
                     /\ raised' = get_result_except(reply.raises)
                     /\ UNCHANGED raised_status
                ELSE IF ~TruthyDict(run)
                THEN /\ pc' = "done"
                     /\ raised' = get_result_except("ApifyClientError")
                     /\ UNCHANGED raised_status
                ELSE IF status = "SUCCEEDED"
                THEN IF ~Truthy(DictGet(run, "defaultDatasetId", None))
                     THEN /\ pc' = "done"
                          /\ raised' = get_result_except("ApifyClientError")
                          /\ UNCHANGED raised_status
                     ELSE /\ pc' = "fetch"
                          /\ UNCHANGED <<raised, raised_status>>
                ELSE \* "Run failed with status: {status}"
                     /\ pc' = "done"
                     /\ raised' = get_result_except("ApifyClientError")
                     /\ raised_status' = status
    /\ UNCHANGED <<webhook_url, timeout, poll_interval, submit, job_id, fetched,
                   returned, result>>

\* What dataset_client.list_items() may do: raise, or return a dict with or
\* without "items".
FetchReplies ==
    {[raises |-> e, body |-> <<>>] : e \in {"TimeoutError", "ApifyApiError"}}
    \cup {[raises |-> None, body |-> <<>>]}
    \cup {[raises |-> None, body |-> [items |-> p]] : p \in Payloads}

\* The dataset fetch and the parse of the managed branch.
ApifyFetch ==
    /\ UNCHANGED <<chat_vars, emotion_vars, correlator_vars, finder_vars, insight_vars>>
    /\ pc = "fetch"
    /\ \E reply \in FetchReplies, perr \in ParseErrors :
         LET raw == [items |-> DictGet(reply.body, "items", <<>>)]
             parsed == parse_result(raw)
         IN  /\ pc' = "done"
             /\ IF reply.raises # None
                THEN /\ raised' = get_result_except(reply.raises)
                     /\ UNCHANGED <<fetched, returned, result>>
                ELSE /\ fetched' = [called |-> TRUE, raw |-> raw]
                     /\ IF parsed.raises
                        THEN /\ raised' = get_result_except(perr)
                             /\ UNCHANGED <<returned, result>>
                        ELSE /\ returned' = TRUE
                             /\ result' = parsed.value
                             /\ UNCHANGED raised
    /\ UNCHANGED <<webhook_url, timeout, poll_interval, submit, job_id, elapsed,
                   polls, raised_status>>

vars == <<scraper_vars, chat_vars, emotion_vars, correlator_vars, finder_vars, insight_vars>>

Init == ScraperInit /\ ChatIdle /\ EmotionIdle /\ CorrelatorIdle /\ FinderIdle /\ InsightIdle

Next ==
    \/ StartScrape
    \/ GetResult
    \/ WebhookPoll
    \/ WebhookTimeout
    \/ ApifyWait
    \/ ApifyFetch

Spec == Init /\ [][Next]_vars

\* get_result runs on its caller's thread: once called, it keeps taking its
\* next step (a poll with its sleep, the wait, the fetch, the final raise).
SpecFair ==
    Spec /\ WF_vars(WebhookPoll \/ WebhookTimeout \/ ApifyWait \/ ApifyFetch)

(* ------------------------------------------------- properties: the scraper *)
\* get_result was called with a job handle.
CalledWithHandle == job_id \in JobIds

\* get_result was called with a job handle and has ended.
GetResultEnded == pc = "done" /\ CalledWithHandle

OnWebhook == Truthy(webhook_url)

\* The status a status request's reply reports, None when it reports none.
ReportedStatus(p) ==
    IF p.reply.raises = None THEN DictGet(p.reply.body, "status", None) ELSE None

\* C1: on the webhook backend, a get_result call in which no status poll
\* reports success (each poll fails in transport or reports another status)
\* ends by raising TimeoutError, at an elapsed time of at least timeout and
\* at most timeout + poll_interval.
C1_TimeoutWithinWindow ==
    (GetResultEnded /\ OnWebhook
       /\ \A i \in DOMAIN polls :
            \/ polls[i].reply.raises = "HTTPError"
            \/ /\ polls[i].reply.raises = None
               /\ ReportedStatus(polls[i]) # "completed")
    => /\ raised = "TimeoutError"
       /\ timeout <= elapsed
       /\ elapsed <= timeout + poll_interval

\* C2: on either backend, a status observation that reports a backend
\* failure (a terminal status other than success) is the last status request
\* of the call, and the call ends at once with the job-failed error, which
\* carries that status.
FailureStatuses == (TerminalRunStatuses \ {"SUCCEEDED"}) \cup {"failed"}

C2_FailureStatusRaisesAtOnce ==
    \A i \in DOMAIN polls :
        (CalledWithHandle /\ ReportedStatus(polls[i]) \in FailureStatuses)
        => /\ i = Len(polls)
           /\ pc = "done"
           /\ raised = "ApifyClientError"
           /\ raised_status = ReportedStatus(polls[i])

\* C3: on the webhook backend a transport failure of a status poll does not
\* end the call: after such a poll the client is back at the loop test, and
\* when the call has ended without a later poll it ended by the deadline.
C3_TransportFailureRetried ==
    (CalledWithHandle /\ OnWebhook /\ polls # <<>>
       /\ polls[Len(polls)].reply.raises = "HTTPError")
    => \/ pc = "loop"
       \/ pc = "done" /\ raised = "TimeoutError"

\* C4: on the managed backend, a wait of timeout seconds that ends with the
\* run still not in a terminal state makes get_result raise TimeoutError, and
\* a TimeoutError raised by the wait leaves get_result as TimeoutError.
C4_UnfinishedRunTimesOut ==
    (GetResultEnded /\ ~OnWebhook /\ timeout > 0 /\ polls # <<>>)
    => LET w == polls[Len(polls)]
       IN  /\ (w.reply.raises = None /\ TruthyDict(w.reply.body)
                 /\ ReportedStatus(w) \notin TerminalRunStatuses)
               => raised = "TimeoutError"
           /\ w.reply.raises = "TimeoutError" => raised = "TimeoutError"

\* C5 as stated: every status request of get_result, on either backend, is
\* issued at an elapsed time strictly below timeout.
C5_EveryRequestBelowTimeout ==
    \A i \in DOMAIN polls : polls[i].job \in JobIds => polls[i].at < timeout

\* C5 as amended: every poll of the webhook loop is issued at an elapsed time
\* strictly below timeout; the managed backend issues exactly one wait, at
\* elapsed time 0 whatever timeout is; and once the call has ended no status
\* request is added.
PollsWithinDeadline ==
    /\ \A i \in DOMAIN polls :
         /\ polls[i].via = "check_status" => polls[i].at < timeout
         /\ polls[i].via = "wait_for_finish" => polls[i].at = 0 /\ i = 1
    /\ (raised # None \/ returned) => pc = "done"

C5_PollsOnlyBeforeDeadlineAndOutcome ==
    [](PollsWithinDeadline) /\ [][pc = "done" => polls' = polls]_vars

C5_Witness ==
    /\ GetResultEnded /\ OnWebhook
    /\ Len(polls) >= 2
    /\ raised = "TimeoutError"

\* C6: on the webhook backend get_result returns at the first poll that
\* reports "completed": that poll is the last one issued, every earlier poll
\* reported a status other than "completed", and the records returned are
\* the items of its payload, one VideoData each, in payload order.
C6_ReturnsAtFirstCompleted ==
    /\ OnWebhook =>
         \A i \in DOMAIN polls :
             ReportedStatus(polls[i]) = "completed" => i = Len(polls) /\ pc = "done"
    /\ (OnWebhook /\ returned) =>
         /\ polls # <<>>
         /\ LET n == Len(polls)
                items == DictGet(polls[n].reply.body, "items", <<>>)
            IN  /\ ReportedStatus(polls[n]) = "completed"
                /\ \A i \in 1..(n - 1) :
                     /\ polls[i].reply.raises = None
                     /\ ReportedStatus(polls[i]) # "completed"
                /\ Len(result) = Len(items)
                /\ \A k \in 1..Len(items) :
                     /\ result[k].url = items[k].url
                     /\ result[k].comments = items[k].comments
                     /\ result[k].metadata = items[k].metadata
                     /\ DOMAIN result[k] = {"url", "comments", "metadata"}

C6_Witness ==
    /\ OnWebhook /\ returned
    /\ Len(polls) >= 2
    /\ Len(result) = 2
    /\ result[1].url # result[2].url

\* C7: when an item of a fetched dataset lacks url, comments or metadata,
\* get_result raises and returns no record at all.
FetchedItems == DictGet(fetched.raw, "items", <<>>)

HasItemLackingField ==
    /\ fetched.called
    /\ \E i \in DOMAIN FetchedItems :
         ~({"url", "comments", "metadata"} \subseteq DOMAIN FetchedItems[i])

C7_ParsingAllOrNothing ==
    HasItemLackingField => raised # None /\ ~returned /\ result = <<>>

C7_Witness ==
    /\ HasItemLackingField
    /\ \E i \in DOMAIN FetchedItems :
         {"url", "comments", "metadata"} \subseteq DOMAIN FetchedItems[i]
    /\ raised # None

\* C8: when the backend accepts the submission but its response names no
\* job (no "job_id" in the webhook's body, no "id" in the run object),
\* start_scrape raises a submission error; it never returns None.
C8_NoHandleIsAnError ==
    /\ submit.state = "returned" => submit.handle # None
    /\ (submit.state # "none" /\ submit.reply.raises = None
          /\ ~({"job_id", "id"} \cap DOMAIN submit.reply.body # {}))
       => submit.state = "raised" /\ submit.raised \in {"RequestError", "ApifyClientError"}

\* C9: a failure of the backend call inside start_scrape leaves start_scrape
\* as RequestError when it is an httpx.HTTPError and as ApifyClientError
\* otherwise, each carrying the original error as its cause; start_scrape
\* raises nothing else.
C9_SubmissionErrorsWrapped ==
    /\ submit.raised \in {None, "RequestError", "ApifyClientError"}
    /\ (submit.state # "none" /\ submit.reply.raises # None)
       => /\ submit.state = "raised"
          /\ submit.cause = submit.reply.raises
          /\ submit.raised =
               (IF submit.reply.raises = "HTTPError" THEN "RequestError"
                                                      ELSE "ApifyClientError")

C9_Witness ==
    /\ submit.state = "raised"
    /\ submit.reply.raises = "HTTPError"
    /\ submit.raised = "RequestError"

(* ----------------------------------------------------------- chat_endpoint *)
MaxVideos == 2   \* longest list of located videos explored
MaxLimit == 2    \* largest request limit explored

VideoUrls == <<"https://www.tiktok.com/v/1", "https://www.tiktok.com/v/2",
               "https://www.tiktok.com/v/3", "https://www.tiktok.com/v/4">>

\* lst[:n]
Take(lst, n) == SubSeq(lst, 1, IF n < Len(lst) THEN n ELSE Len(lst))

\* The exceptions a collaborator's method may raise, each with its message.
StageExceptions ==
    [cls : {"TimeoutError", "ApifyClientError", "ValueError"},
     message : {"message A", "message B"}]

\* The scraper stays as constructed while a request is handled.
ScraperIdle ==
    /\ webhook_url = None
    /\ timeout = 0
    /\ poll_interval = 1
    /\ pc = "idle"
    /\ submit = NoSubmit
    /\ job_id = None
    /\ elapsed = 0
    /\ polls = <<>>
    /\ fetched = NotFetched
    /\ raised = None
    /\ raised_status = None
    /\ returned = FALSE
    /\ result = <<>>

ChatInit ==
    /\ doubles \in BOOLEAN
    /\ located \in {SubSeq(VideoUrls, 1, n) : n \in 0..MaxVideos}
    /\ limit \in 1..MaxLimit
    /\ cpc = "locate"
    /\ calls = <<>>
    /\ video_urls = <<>>
    /\ started_job = None
    /\ get_result_args = <<>>
    /\ video_data_list = <<>>
    /\ exc = NoException
    /\ status_code = 0
    /\ detail = NoDetail

\* raise HTTPException(status_code, detail) or, for 200, the return.
Respond(code, det) ==
    /\ status_code' = code
    /\ detail' = det
    /\ cpc' = "responded"

\* A faulty handler without the `except TimeoutError` clause.
scrape_except_no_timeout(e) ==
    [status_code |-> 502,
     detail |-> [text |-> "Error during scraping: ", message |-> e.message]]

\* The except clauses of the scraping step.
scrape_except(e) ==
    IF e.cls = "TimeoutError"
    THEN [status_code |-> 504,
          detail |-> [text |-> "Scraping operation timed out", message |-> None]]
    ELSE [status_code |-> 502,
          detail |-> [text |-> "Error during scraping: ", message |-> e.message]]

\* The single `except Exception` clause of the later steps.
stage_except(text, e) ==
    [status_code |-> 502, detail |-> [text |-> text, message |-> e.message]]

Raise(stage, e, handled) ==
    /\ exc' = [stage |-> stage, cls |-> e.cls, message |-> e.message]
    /\ Respond(handled.status_code, handled.detail)

\* A faulty step 1 that goes on to the scraper with no video.
ChatLocateUnchecked ==
    /\ cpc = "locate"
    /\ calls' = Append(calls, "get_videos")
    /\ video_urls' = Take(located, limit)
    /\ cpc' = "start_scrape"
    /\ UNCHANGED <<status_code, detail>>
    /\ UNCHANGED <<doubles, located, limit, started_job, get_result_args, video_data_list, exc>>
    /\ UNCHANGED <<scraper_vars, emotion_vars, correlator_vars, finder_vars, insight_vars>>

\* Step 1: get_videos(query, direct_url=url)[:limit], 404 when it is empty.
ChatLocate ==
    /\ cpc = "locate"
    /\ calls' = Append(calls, "get_videos")
    /\ video_urls' = Take(located, limit)
    /\ IF Take(located, limit) = <<>>
       THEN Respond(404, [text |-> "No videos found for query or invalid TikTok URL",
                          message |-> None])
       ELSE /\ cpc' = "start_scrape"
            /\ UNCHANGED <<status_code, detail>>
    /\ UNCHANGED <<doubles, located, limit, started_job, get_result_args, video_data_list, exc>>
    /\ UNCHANGED <<scraper_vars, emotion_vars, correlator_vars, finder_vars, insight_vars>>

\* Step 2, first half: Scraper(), ScrapeConfig(...), start_scrape(config).
\* The repository's Scraper cannot be constructed without its two required
\* arguments, so Scraper() raises TypeError; a double returns or raises.
ChatStartScrape ==
    /\ cpc = "start_scrape"
    /\ IF ~doubles
       THEN LET e == [cls |-> "TypeError", message |-> "missing arguments"]
            IN  /\ Raise("Scraper", e, scrape_except(e))
                /\ UNCHANGED <<calls, started_job>>
       ELSE /\ calls' = Append(calls, "start_scrape")
            /\ \/ /\ \E handle \in JobIds : started_job' = handle
                  /\ cpc' = "get_result"
                  /\ UNCHANGED <<exc, status_code, detail>>
               \/ /\ \E e \in StageExceptions : Raise("start_scrape", e, scrape_except(e))
                  /\ UNCHANGED started_job
    /\ UNCHANGED <<doubles, located, limit, video_urls, get_result_args, video_data_list>>
    /\ UNCHANGED <<scraper_vars, emotion_vars, correlator_vars, finder_vars, insight_vars>>

\* Step 2, second half: get_result(), called without an argument (the value
\* start_scrape returned was not kept), then 404 when no record came back.
ChatGetResult ==
    /\ cpc = "get_result"
    /\ calls' = Append(calls, "get_result")
    /\ get_result_args' = <<>>
    /\ \/ \E records \in {<<>>, <<VideoData(Video1)>>} :
            /\ video_data_list' = records
            /\ UNCHANGED exc
            /\ IF records = <<>>
               THEN Respond(404, [text |-> "Failed to scrape any video data",
                                  message |-> None])
               ELSE /\ cpc' = "text_analyze"
                    /\ UNCHANGED <<status_code, detail>>
       \/ /\ \E e \in StageExceptions : Raise("get_result", e, scrape_except(e))
          /\ UNCHANGED video_data_list
    /\ UNCHANGED <<doubles, located, limit, video_urls, started_job>>
    /\ UNCHANGED <<scraper_vars, emotion_vars, correlator_vars, finder_vars, insight_vars>>

\* A later collaborator call: it returns and the handler goes on, or it
\* raises and the step's except clause answers.
LaterStage(stage, next, text) ==
    /\ calls' = Append(calls, stage)
    /\ \/ /\ cpc' = next
          /\ UNCHANGED <<exc, status_code, detail>>
       \/ \E e \in StageExceptions : Raise(stage, e, stage_except(text, e))
    /\ UNCHANGED <<doubles, located, limit, video_urls, started_job, get_result_args,
                   video_data_list>>
    /\ UNCHANGED <<scraper_vars, emotion_vars, correlator_vars, finder_vars, insight_vars>>

\* Step 3: text_analyzer.analyze, then audio_analyzer.analyze.
ChatTextAnalyze ==
    /\ cpc = "text_analyze"
    /\ LaterStage("text_analyze", "audio_analyze", "Error during emotion analysis: ")

ChatAudioAnalyze ==
    /\ cpc = "audio_analyze"
    /\ LaterStage("audio_analyze", "compute", "Error during emotion analysis: ")

\* Step 4: correlator.compute.
ChatCorrelate ==
    /\ cpc = "compute"
    /\ LaterStage("compute", "generate", "Error during correlation analysis: ")

\* Step 5: insight_generator.generate, then suggest_pr_hooks.
ChatGenerate ==
    /\ cpc = "generate"
    /\ LaterStage("generate", "suggest_pr_hooks", "Error during insight generation: ")

ChatSuggest ==
    /\ cpc = "suggest_pr_hooks"
    /\ LaterStage("suggest_pr_hooks", "respond", "Error during insight generation: ")

\* return ChatResponse(...)
ChatRespond ==
    /\ cpc = "respond"
    /\ Respond(200, NoDetail)
    /\ UNCHANGED <<doubles, located, limit, calls, video_urls, started_job, get_result_args,
                   video_data_list, exc>>
    /\ UNCHANGED <<scraper_vars, emotion_vars, correlator_vars, finder_vars, insight_vars>>

InitChat == ChatInit /\ ScraperIdle /\ EmotionIdle /\ CorrelatorIdle /\ FinderIdle /\ InsightIdle

NextChat ==
    \/ ChatLocate
    \/ ChatStartScrape
    \/ ChatGetResult
    \/ ChatTextAnalyze
    \/ ChatAudioAnalyze
    \/ ChatCorrelate
    \/ ChatGenerate
    \/ ChatSuggest
    \/ ChatRespond

SpecChat == InitChat /\ [][NextChat]_vars

(* --------------------------------------------- properties: chat_endpoint *)
ScrapeStages == {"Scraper", "start_scrape", "get_result"}

\* C10: a request with no located video ends with 404; a TimeoutError raised
\* by start_scrape or get_result ends it with 504; every other exception
\* raised by the scrape, emotion-analysis, correlation or insight stage ends
\* it with 502, whose detail carries the exception's message.
C10_ErrorMapping ==
    /\ (cpc # "locate" /\ video_urls = <<>>)
       => cpc = "responded" /\ status_code = 404
    /\ exc.stage # None
       => /\ cpc = "responded"
          /\ IF exc.stage \in ScrapeStages /\ exc.cls = "TimeoutError"
             THEN status_code = 504
             ELSE status_code = 502 /\ detail.message = exc.message

C10_Witness ==
    /\ cpc = "responded"
    /\ exc.stage = "get_result"
    /\ exc.cls = "TimeoutError"
    /\ status_code = 504

(* ------------------------------------------------ the emotion classifiers *)
MaxCalls == 2          \* analyze calls made on one classifier

\* The labels the classifiers are asked for and the correlator reads.
Emotions == {"joy", "sadness", "anger", "fear", "surprise", "disgust", "neutral"}

\* Scores are kept in hundredths: 80 stands for the float 0.8.
\* The dict TextEmotionAnalyzer.analyze returns under the "dummy" key.
text_dummy_scores ==
    [joy |-> 80, sadness |-> 10, anger |-> 5, fear |-> 3, surprise |-> 2]

\* The dict AudioEmotionAnalyzer.analyze returns when both keys are "dummy".
audio_dummy_scores ==
    [joy |-> 70, sadness |-> 10, anger |-> 10, fear |-> 5, surprise |-> 5,
     disgust |-> 0, neutral |-> 0]

\* The dict both classifiers return from their except clause, and the audio
\* classifier for an empty transcript.
fallback_scores ==
    [joy |-> 0, sadness |-> 0, anger |-> 0, fear |-> 0, surprise |-> 0,
     disgust |-> 0, neutral |-> 100]

\* Python values as json.loads builds them.  `num` is the value of an int,
\* or the hundredths of a float; `keys` lists a dict's keys in insertion
\* order and `members` maps them to their values; `elems` is a list's items.
PyInt(n) == [type |-> "int", num |-> n, text |-> "", keys |-> <<>>,
             members |-> <<>>, elems |-> <<>>]
PyFloat(h) == [type |-> "float", num |-> h, text |-> "", keys |-> <<>>,
               members |-> <<>>, elems |-> <<>>]
PyStr(t) == [type |-> "str", num |-> 0, text |-> t, keys |-> <<>>,
             members |-> <<>>, elems |-> <<>>]
PyNone == [type |-> "NoneType", num |-> 0, text |-> "", keys |-> <<>>,
           members |-> <<>>, elems |-> <<>>]
PyDict(keys, members) == [type |-> "dict", num |-> 0, text |-> "", keys |-> keys,
                          members |-> members, elems |-> <<>>]
PyList(elems) == [type |-> "list", num |-> 0, text |-> "", keys |-> <<>>,
                  members |-> <<>>, elems |-> elems]

\* A dict of floats, as analyze returns it.
ScoreDict(scores) ==
    PyDict(<<>>, [name \in DOMAIN scores |-> PyFloat(scores[name])])

\* What a call leaves when it raises or returns.
Raises(cls) == [raises |-> cls, value |-> PyNone]
Returns(value) == [raises |-> None, value |-> value]

\* Response texts that are not JSON.
MalformedTexts == {"not json", "{\"joy\": 0.9"}

\* Response texts that are JSON: the object of the tests, objects that lack
\* labels or carry other values, and top-level values that are no object.
WellFormedTexts ==
    {"{\"joy\": 0.6, \"sadness\": 0.1, \"anger\": 0.05, \"fear\": 0.05, \"surprise\": 0.1, \"disgust\": 0.0, \"neutral\": 0.1}",
     "{\"joy\": 0.9}",
     "{\"joy\": 1, \"trust\": \"0.5\"}",
     "{\"joy\": \"high\"}",
     "{\"joy\": null}",
     "{\"joy\": {\"score\": 0.9}}",
     "{}",
     "[]",
     "[1]",
     "[\"joy\"]",
     "0.9",
     "null",
     "\"joy\""}

\* json.loads(s): the value a JSON text denotes; JSONDecodeError otherwise.
json_loads(s) ==
    CASE s = "{\"joy\": 0.6, \"sadness\": 0.1, \"anger\": 0.05, \"fear\": 0.05, \"surprise\": 0.1, \"disgust\": 0.0, \"neutral\": 0.1}"
           -> Returns(PyDict(<<"joy", "sadness", "anger", "fear", "surprise",
                               "disgust", "neutral">>,
                             [joy |-> PyFloat(60), sadness |-> PyFloat(10),
                              anger |-> PyFloat(5), fear |-> PyFloat(5),
                              surprise |-> PyFloat(10), disgust |-> PyFloat(0),
                              neutral |-> PyFloat(10)]))
      [] s = "{\"joy\": 0.9}"
           -> Returns(PyDict(<<"joy">>, [joy |-> PyFloat(90)]))
      [] s = "{\"joy\": 1, \"trust\": \"0.5\"}"
           -> Returns(PyDict(<<"joy", "trust">>,
                             [joy |-> PyInt(1), trust |-> PyStr("0.5")]))
      [] s = "{\"joy\": \"high\"}"
           -> Returns(PyDict(<<"joy">>, [joy |-> PyStr("high")]))
      [] s = "{\"joy\": null}"
           -> Returns(PyDict(<<"joy">>, [joy |-> PyNone]))
      [] s = "{\"joy\": {\"score\": 0.9}}"
           -> Returns(PyDict(<<"joy">>,
                             [joy |-> PyDict(<<"score">>, [score |-> PyFloat(90)])]))
      [] s = "{}" -> Returns(PyDict(<<>>, <<>>))
      [] s = "[]" -> Returns(PyList(<<>>))
      [] s = "[1]" -> Returns(PyList(<<PyInt(1)>>))
      [] s = "[\"joy\"]" -> Returns(PyList(<<PyStr("joy")>>))
      [] s = "0.9" -> Returns(PyFloat(90))
      [] s = "null" -> Returns(PyNone)
      [] s = "\"joy\"" -> Returns(PyStr("joy"))
      [] s = "{\"insights\": [\"i1\", \"i2\", \"i3\"]}"
           -> Returns(PyDict(<<"insights">>,
                             [insights |-> PyList(<<PyStr("i1"), PyStr("i2"), PyStr("i3")>>)]))
      [] s = "{\"hooks\": [\"h1\", \"h2\", \"h3\"]}"
           -> Returns(PyDict(<<"hooks">>,
                             [hooks |-> PyList(<<PyStr("h1"), PyStr("h2"), PyStr("h3")>>)]))
      [] s = "{\"insights\": null}"
           -> Returns(PyDict(<<"insights">>, [insights |-> PyNone]))
      [] OTHER -> Raises("JSONDecodeError")

\* float(x): an int or a float converts, a str converts when it spells a
\* number (ValueError otherwise), anything else is a TypeError.
float(x) ==
    CASE x.type = "int" -> Returns(PyFloat(x.num * 100))
      [] x.type = "float" -> Returns(x)
      [] x.type = "str" -> CASE x.text = "0.5" -> Returns(PyFloat(50))
                             [] x.text = "1" -> Returns(PyFloat(100))
                             [] OTHER -> Raises("ValueError")
      [] OTHER -> Raises("TypeError")

\* `for key in result: result[key] = float(result[key])` on a dict, from its
\* k-th key on: the first value float() rejects ends the loop.
RECURSIVE dict_floats(_, _)
dict_floats(obj, k) ==
    IF k > Len(obj.keys)
    THEN Returns(obj)
    ELSE LET key == obj.keys[k]
             f == float(obj.members[key])
         IN  IF f.raises # None
             THEN f
             ELSE dict_floats([obj EXCEPT !.members[key] = f.value], k + 1)

\* The same loop on a list: each item is used as an index into the list.
\* An index must be an int (TypeError) within the list (IndexError).
RECURSIVE list_floats(_, _)
list_floats(obj, k) ==
    IF k > Len(obj.elems)
    THEN Returns(obj)
    ELSE LET key == obj.elems[k]
             n == Len(obj.elems)
         IN  IF key.type # "int"
             THEN Raises("TypeError")
             ELSE IF key.num >= n \/ key.num < 0 - n
             THEN Raises("IndexError")
             ELSE LET pos == IF key.num >= 0 THEN key.num + 1 ELSE n + key.num + 1
                      f == float(obj.elems[pos])
                  IN  IF f.raises # None
                      THEN f
                      ELSE list_floats([obj EXCEPT !.elems[pos] = f.value], k + 1)

\* The loop on whatever json.loads returned.  A str is iterated by
\* character and indexing it with a character is a TypeError; a number or
\* None cannot be iterated.
to_floats(obj) ==
    CASE obj.type = "dict" -> dict_floats(obj, 1)
      [] obj.type = "list" -> list_floats(obj, 1)
      [] obj.type = "str" -> IF obj.text = "" THEN Returns(obj)
                                ELSE Raises("TypeError")
      [] OTHER -> Raises("TypeError")

\* What chat.completions.create may do: raise, or return a response with
\* no choice, with a choice whose content is None, or with a content text.
NoResponse == [raises |-> None, choices |-> 0, content |-> None]
ApiReplies ==
    {[raises |-> "APIConnectionError", choices |-> 0, content |-> None],
     [raises |-> None, choices |-> 0, content |-> None],
     [raises |-> None, choices |-> 1, content |-> None]}
    \cup {[raises |-> None, choices |-> 1, content |-> s] :
            s \in MalformedTexts \cup WellFormedTexts}

\* The body of analyze's try block: response.choices[0].message.content,
\* json.loads, the float loop, return.
try_parse(response) ==
    IF response.choices = 0
    THEN Raises("IndexError")
    ELSE IF response.content = None
    THEN Raises("TypeError")
    ELSE LET loaded == json_loads(response.content)
         IN  IF loaded.raises # None THEN loaded ELSE to_floats(loaded.value)

\* A faulty except clause that leaves out json.JSONDecodeError.
parse_handlers_no_decode == {"AttributeError", "IndexError"}

\* except (json.JSONDecodeError, AttributeError, IndexError)
parse_handlers == {"JSONDecodeError", "AttributeError", "IndexError"}

\* The try statement that ends both analyze methods.
parse_scores(response) ==
    LET tried == try_parse(response)
    IN  IF tried.raises # None /\ \E h \in parse_handlers : Catches(h, tried.raises)
        THEN Returns(ScoreDict(fallback_scores))
        ELSE tried

\* The record of one analyze call.
\*   transcribed   whether audio.transcriptions.create was invoked
\*   failed        whether the transcription attempt raised
\*   transcript    what _transcribe_audio returned (None when not called)
\*   classified    the transcript handed to the classification step
\*   chat_called   whether chat.completions.create was invoked
\*   deref_none    whether an attribute of a None client was read
\*   response      what chat.completions.create answered
\*   raised_at     the step whose exception left analyze
NotCalled ==
    [variant |-> None, transcribed |-> FALSE, failed |-> FALSE, transcript |-> None,
     classified |-> None, chat_called |-> FALSE, deref_none |-> FALSE,
     response |-> NoResponse, raises |-> None, raised_at |-> None,
     returns |-> PyNone]

ApiKeys == {"dummy", "sk-live"}

\* TextEmotionAnalyzer.__init__
TextEmotionAnalyzer(api_key) ==
    [variant |-> "text", api_key |-> api_key,
     client |-> IF api_key # "dummy" THEN "OpenAI" ELSE None]

\* The generative call and the try statement after it, shared by the two
\* analyze methods: self.client.chat.completions.create(...) is evaluated
\* outside the try.
classify(self, call, reply) ==
    IF self.client = None
    THEN [call EXCEPT !.deref_none = TRUE, !.raises = "AttributeError",
                      !.raised_at = "classify"]
    ELSE IF reply.raises # None
    THEN [call EXCEPT !.chat_called = TRUE, !.response = reply,
                      !.raises = reply.raises, !.raised_at = "classify"]
    ELSE LET parsed == parse_scores(reply)
         IN  IF parsed.raises # None
             THEN [call EXCEPT !.chat_called = TRUE, !.response = reply,
                               !.raises = parsed.raises, !.raised_at = "parse"]
             ELSE [call EXCEPT !.chat_called = TRUE, !.response = reply,
                               !.returns = parsed.value]

\* A faulty test that never takes the offline branch.
text_is_dummy_never(self) == FALSE

\* `if self.api_key == "dummy"` of TextEmotionAnalyzer.analyze
text_is_dummy(self) == self.api_key = "dummy"

\* TextEmotionAnalyzer.analyze
text_analyze(self, reply) ==
    LET call == [NotCalled EXCEPT !.variant = "text"]
    IN  IF text_is_dummy(self)
        THEN [call EXCEPT !.returns = ScoreDict(text_dummy_scores)]
        ELSE classify(self, call, reply)

\* AudioEmotionAnalyzer.__init__
AudioEmotionAnalyzer(api_key, openai_api_key) ==
    [variant |-> "audio", api_key |-> api_key, openai_api_key |-> openai_api_key,
     client |-> IF openai_api_key # "dummy" THEN "OpenAI" ELSE None]

SimulatedTranscript == "I'm really excited about this project. It's going to be amazing!"
FallbackTranscript == "Error transcribing audio. Using fallback text for analysis."

\* What the transcription attempt meets: a file that cannot be opened, a
\* transcription request that raises, or one that answers a text.
Transcriptions ==
    {[opens |-> FALSE, raises |-> None, text |-> ""],
     [opens |-> TRUE, raises |-> "APIError", text |-> ""],
     [opens |-> TRUE, raises |-> None, text |-> ""],
     [opens |-> TRUE, raises |-> None, text |-> "words spoken"]}

\* A faulty except clause that catches the transcription API's error only.
transcribe_handler_api_only == "APIError"

\* `except Exception` of _transcribe_audio
transcribe_handler == "Exception"

\* AudioEmotionAnalyzer._transcribe_audio
transcribe_audio(self, t) ==
    IF self.api_key = "dummy"
    THEN [raises |-> None, text |-> SimulatedTranscript, transcribed |-> FALSE,
          failed |-> FALSE, deref_none |-> FALSE]
    ELSE LET tried ==
                 IF ~t.opens
                 THEN [raises |-> "FileNotFoundError", text |-> None,
                       transcribed |-> FALSE, failed |-> TRUE, deref_none |-> FALSE]
                 ELSE IF self.client = None
                 THEN [raises |-> "AttributeError", text |-> None,
                       transcribed |-> FALSE, failed |-> TRUE, deref_none |-> TRUE]
                 ELSE IF t.raises # None
                 THEN [raises |-> t.raises, text |-> None,
                       transcribed |-> TRUE, failed |-> TRUE, deref_none |-> FALSE]
                 ELSE [raises |-> None, text |-> t.text,
                       transcribed |-> TRUE, failed |-> FALSE, deref_none |-> FALSE]
         IN  IF tried.raises # None /\ Catches(transcribe_handler, tried.raises)
             THEN [tried EXCEPT !.raises = None, !.text = FallbackTranscript]
             ELSE tried

\* AudioEmotionAnalyzer.analyze
audio_analyze(self, t, reply) ==
    LET call == [NotCalled EXCEPT !.variant = "audio"]
    IN  IF self.api_key = "dummy" /\ self.openai_api_key = "dummy"
        THEN [call EXCEPT !.returns = ScoreDict(audio_dummy_scores)]
        ELSE LET tr == transcribe_audio(self, t)
                 heard == [call EXCEPT !.transcribed = tr.transcribed,
                                       !.failed = tr.failed,
                                       !.deref_none = tr.deref_none,
                                       !.transcript = tr.text]
             IN  IF tr.raises # None
                 THEN [heard EXCEPT !.raises = tr.raises, !.raised_at = "transcribe"]
                 ELSE IF ~Truthy(tr.text)
                 THEN [heard EXCEPT !.returns = ScoreDict(fallback_scores)]
                 ELSE classify(self, [heard EXCEPT !.classified = tr.text], reply)

\* A classifier is constructed with each key the sentinel or a live one.
EmotionInit ==
    /\ analyzer \in {TextEmotionAnalyzer(k) : k \in ApiKeys}
                    \cup {AudioEmotionAnalyzer(k, o) : k \in ApiKeys, o \in ApiKeys}
    /\ analyze_calls = <<>>

\* text_analyzer.analyze(texts): the texts reach the generative service
\* only, whose answer is the environment's.
TextAnalyze ==
    /\ analyzer.variant = "text"
    /\ Len(analyze_calls) < MaxCalls
    /\ \E reply \in ApiReplies :
           analyze_calls' = Append(analyze_calls, text_analyze(analyzer, reply))
    /\ UNCHANGED analyzer
    /\ UNCHANGED <<scraper_vars, chat_vars, correlator_vars, finder_vars, insight_vars>>

\* audio_analyzer.analyze(audio_path)
AudioAnalyze ==
    /\ analyzer.variant = "audio"
    /\ Len(analyze_calls) < MaxCalls
    /\ \E t \in Transcriptions, reply \in ApiReplies :
           analyze_calls' = Append(analyze_calls, audio_analyze(analyzer, t, reply))
    /\ UNCHANGED analyzer
    /\ UNCHANGED <<scraper_vars, chat_vars, correlator_vars, finder_vars, insight_vars>>

InitEmotion == EmotionInit /\ ScraperIdle /\ ChatIdle /\ CorrelatorIdle /\ FinderIdle /\ InsightIdle

NextEmotion ==
    \/ TextAnalyze
    \/ AudioAnalyze

SpecEmotion == InitEmotion /\ [][NextEmotion]_vars

(* ------------------------------------- properties: the emotion classifiers *)
Calls == {analyze_calls[i] : i \in DOMAIN analyze_calls}

\* The return value of a call as a map from key to hundredths.
ReturnedScores(call) ==
    [name \in DOMAIN call.returns.members |-> call.returns.members[name].num]

ReturnedDict(call) == call.raises = None /\ call.returns.type = "dict"

\* The call reached the generative service, which answered the text s.
Answered(call, s) ==
    /\ call.chat_called
    /\ call.response.raises = None
    /\ call.response.choices > 0
    /\ call.response.content = s

ReturnedFallback(call) ==
    /\ ReturnedDict(call)
    /\ ReturnedScores(call) =
           [neutral |-> 100, joy |-> 0, sadness |-> 0, anger |-> 0, fear |-> 0,
            surprise |-> 0, disgust |-> 0]

\* C11: with a live credential, when the generative service's response text
\* is not well-formed JSON, analyze (text or audio) does not raise and
\* returns exactly neutral 1.0 and 0.0 for the six other labels.
C11_MalformedResponseFallsBack ==
    \A call \in Calls : \A s \in MalformedTexts :
        Answered(call, s) => ReturnedFallback(call)

C11_Witness ==
    \E call \in Calls : \E s \in MalformedTexts :
        /\ call.variant = "audio"
        /\ call.transcribed
        /\ Answered(call, s)
        /\ ReturnedFallback(call)

\* The response text is JSON of the wrong format: no object, an object
\* lacking one of the seven labels, or an object with a value that is no
\* number.
WrongFormat(s) ==
    /\ s \in WellFormedTexts
    /\ LET v == json_loads(s).value
       IN  \/ v.type # "dict"
           \/ ~(Emotions \subseteq DOMAIN v.members)
           \/ \E name \in DOMAIN v.members : float(v.members[name]).raises # None

\* C12: with a live credential, when the response is well-formed JSON of
\* the wrong format (labels missing, a non-numeric value, a top-level value
\* that is no object), analyze returns the fallback distribution and no
\* exception reaches the caller.
C12_WrongFormatFallsBack ==
    \A call \in Calls : \A s \in WellFormedTexts :
        (WrongFormat(s) /\ Answered(call, s)) => ReturnedFallback(call)

\* The classifier was constructed with the sentinel as one of its keys.
HasSentinel ==
    \/ analyzer.variant = "text" /\ analyzer.api_key = "dummy"
    \/ analyzer.variant = "audio"
       /\ (analyzer.api_key = "dummy" \/ analyzer.openai_api_key = "dummy")

\* C13: a classifier constructed with the sentinel credential "dummy" (for
\* the audio classifier: as either of its two keys) answers every analyze
\* call with its fixed canned map, without invoking the transcription client
\* or the generative client and without reading an attribute of the absent
\* client.
C13_SentinelShortCircuits ==
    HasSentinel =>
        \A call \in Calls :
            /\ ReturnedDict(call)
            /\ ReturnedScores(call) = IF call.variant = "text"
                                      THEN text_dummy_scores
                                      ELSE audio_dummy_scores
            /\ ~call.transcribed
            /\ ~call.chat_called
            /\ ~call.deref_none

\* C14: when the transcription attempt fails, _transcribe_audio returns the
\* fixed fallback string, analyze enters the classification step with that
\* string as the transcript, and no exception leaves analyze from the
\* transcription step.
C14_TranscriptionFailureFallsBack ==
    \A call \in Calls :
        (call.variant = "audio" /\ call.failed)
            => /\ call.transcript = "Error transcribing audio. Using fallback text for analysis."
               /\ call.classified = call.transcript
               /\ call.raised_at # "transcribe"

C14_Witness ==
    \E call \in Calls :
        /\ call.variant = "audio"
        /\ call.failed
        /\ ~call.transcribed
        /\ call.classified = FallbackTranscript
        /\ call.chat_called
        /\ ReturnedDict(call)

\* Every key of the classifier is the sentinel.
Offline ==
    \/ analyzer.variant = "text" /\ analyzer.api_key = "dummy"
    \/ analyzer.variant = "audio"
       /\ analyzer.api_key = "dummy" /\ analyzer.openai_api_key = "dummy"

\* C15: on a classifier constructed with the sentinel credential (the audio
\* classifier with both keys the sentinel), every analyze call returns a
\* score map, any two calls return equal maps whatever the environment
\* offers, and every score lies in [0.0, 1.0].
C15_OfflineDeterminism ==
    Offline =>
        /\ \A call \in Calls :
               /\ ReturnedDict(call)
               /\ \A name \in DOMAIN ReturnedScores(call) :
                      ReturnedScores(call)[name] \in 0..100
        /\ \A c1 \in Calls, c2 \in Calls : ReturnedScores(c1) = ReturnedScores(c2)

C15_Witness ==
    /\ Offline
    /\ analyzer.variant = "text"
    /\ Len(analyze_calls) >= 2
    /\ ReturnedScores(analyze_calls[1]) = ReturnedScores(analyze_calls[2])
    /\ ReturnedScores(analyze_calls[1])["joy"] = 80

\* C16: every score map a classifier returns, on every path, has exactly
\* the seven labels as its keys.
C16_SevenLabelsOnEveryPath ==
    \A call \in Calls :
        call.raises = None
            => /\ call.returns.type = "dict"
               /\ DOMAIN call.returns.members = Emotions

(* ----------------------------------------------------- Correlator.compute *)
MaxRecords == 2        \* longest video_data explored

\* self.emotions and self.metadata_fields
emotions == <<"joy", "sadness", "anger", "fear", "surprise", "disgust", "neutral">>
metadata_fields == <<"likes", "comments", "shares", "views">>

Range(lst) == {lst[i] : i \in DOMAIN lst}

\* Python's floats are kept as exact fractions num/den with den > 0; the
\* inputs are small enough for the float operations to stay far closer to
\* the exact value than a hundredth.
Rat(n, d) == [num |-> n, den |-> d]
RatAdd(a, b) ==
    IF a.den = b.den
    THEN Rat(a.num + b.num, a.den)
    ELSE Rat(a.num * b.den + b.num * a.den, a.den * b.den)
RatMul(a, b) == Rat(a.num * b.num, a.den * b.den)

\* a / b; Python raises ZeroDivisionError when b is 0.
RatDiv(a, b) ==
    IF b.num = 0
    THEN Raises("ZeroDivisionError")
    ELSE Returns(Rat(a.num * b.den, a.den * b.num))

\* A score of h hundredths, and the float a Python number converts to.
Score(h) == Rat(h, 100)
Float(x) == Rat(x.num, 100)

\* round(q, 2), in hundredths.  q lies between two neighbouring hundredths;
\* the nearer one is returned.  When q is exactly halfway, what Python
\* returns depends on the binary representation of the float, and `up`
\* tells whether it is the upper neighbour.
IsTie(q) == 2 * ((q.num * 100) % q.den) = q.den
round2(q, up) ==
    LET lower == (q.num * 100) \div q.den
        rest == (q.num * 100) % q.den
    IN  IF 2 * rest > q.den \/ (2 * rest = q.den /\ up) THEN lower + 1 ELSE lower

\* A faulty merge that adds the two scores without halving the sum.
merge_sum(text_value, audio_value) == Returns(RatAdd(text_value, audio_value))

\* (text_value + audio_value) / 2
merge(text_value, audio_value) == RatDiv(RatAdd(text_value, audio_value), Rat(2, 1))

\* combined_scores: one entry for each of self.emotions, a label missing
\* from a score dict counting as 0.0.
combined_scores(text, audio) ==
    [emotion \in Range(emotions) |->
        merge(Score(DictGet(text, emotion, 0)), Score(DictGet(audio, emotion, 0))).value]

\* The loops that add float(video.metadata.get(field, 0)) to
\* metadata_values[field] for each field the video's metadata holds, from
\* the j-th field of the i-th video on.  A value float() rejects ends them.
RECURSIVE sum_metadata(_, _, _, _)
sum_metadata(videos, metadata_values, i, j) ==
    IF i > Len(videos)
    THEN Returns(metadata_values)
    ELSE IF j > Len(metadata_fields)
    THEN sum_metadata(videos, metadata_values, i + 1, 1)
    ELSE LET field == metadata_fields[j]
         IN  IF field \in DOMAIN videos[i].metadata
             THEN LET f == float(videos[i].metadata[field])
                  IN  IF f.raises # None
                      THEN f
                      ELSE sum_metadata(
                               videos,
                               [metadata_values EXCEPT
                                    ![field] = RatAdd(@, Float(f.value))],
                               i, j + 1)
             ELSE sum_metadata(videos, metadata_values, i, j + 1)

\* metadata_values[field] /= video_count
averages(metadata_values, video_count) ==
    [field \in DOMAIN metadata_values |->
        RatDiv(metadata_values[field], Rat(video_count, 1)).value]

\* A faulty count that adds up the metadata field named comments.
RECURSIVE comment_total_of_metadata(_, _)
comment_total_of_metadata(videos, i) ==
    IF i > Len(videos)
    THEN 0
    ELSE (IF "comments" \in DOMAIN videos[i].metadata
          THEN videos[i].metadata["comments"].num
          ELSE 0)
         + comment_total_of_metadata(videos, i + 1)

\* sum(len(video.comments) for video in video_data)
RECURSIVE comment_total(_, _)
comment_total(videos, i) ==
    IF i > Len(videos) THEN 0 ELSE Len(videos[i].comments) + comment_total(videos, i + 1)

\* A faulty test that also takes the division branch for a mean of 0.
mean_not_negative(mean) == mean.num >= 0

\* `if metadata_values[field] > 0`
mean_positive(mean) == mean.num > 0

\* A faulty loop that skips the fields whose mean is 0.
correlated_fields_positive(metadata_values) ==
    {field \in DOMAIN metadata_values : metadata_values[field].num > 0}

\* `for field in metadata_values`
correlated_fields(metadata_values) == DOMAIN metadata_values

\* A faulty test that emits the comment ratios from two comments on.
has_comments_several(comment_count) == comment_count > 1

\* `if comment_count > 0`
has_comments(comment_count) == comment_count > 0

\* The keys compute writes, and the emotion and the field a key is made of.
VsKey(emotion, field) == emotion \o "_vs_" \o field
RatioKey(emotion) == emotion \o "_comment_ratio"
KeyTable ==
    {[key |-> VsKey(e, f), emotion |-> e, field |-> f] :
         e \in Range(emotions), f \in Range(metadata_fields)}
    \cup {[key |-> RatioKey(e), emotion |-> e, field |-> None] : e \in Range(emotions)}
KeyParts(key) == CHOOSE row \in KeyTable : row.key = key

\* results[f"{emotion}_vs_{field}"] before rounding: the ratio times 100
\* for a positive mean, the literal 0.0 otherwise.
correlation(combined, mean) ==
    IF mean_positive(mean)
    THEN LET ratio == RatDiv(combined, mean)
         IN  IF ratio.raises # None
             THEN ratio
             ELSE Returns(RatMul(ratio.value, Rat(100, 1)))
    ELSE Returns(Rat(0, 1))

\* results[f"{emotion}_comment_ratio"] before rounding.
comment_ratio(combined, comment_count) ==
    RatDiv(RatMul(combined, Rat(100, 1)), Rat(comment_count, 1))

\* What compute writes, before rounding: the value of every key of the
\* result, or the exception that ends the call.
unrounded(videos, text, audio) ==
    LET combined == combined_scores(text, audio)
        summed == sum_metadata(videos,
                               [field \in Range(metadata_fields) |-> Rat(0, 1)], 1, 1)
        means == averages(summed.value, Len(videos))
        comment_count == comment_total(videos, 1)
        keys == {VsKey(emotion, field) :
                     emotion \in DOMAIN combined, field \in correlated_fields(means)}
                \cup IF has_comments(comment_count)
                     THEN {RatioKey(emotion) : emotion \in DOMAIN combined}
                     ELSE {}
        exact == [key \in keys |->
                     LET parts == KeyParts(key)
                     IN  IF parts.field = None
                         THEN comment_ratio(combined[parts.emotion], comment_count)
                         ELSE correlation(combined[parts.emotion], means[parts.field])]
    IN  IF summed.raises # None
        THEN Raises(summed.raises)
        ELSE IF Len(videos) = 0
        THEN Raises("ZeroDivisionError")
        ELSE IF \E key \in keys : exact[key].raises # None
        THEN Raises("ZeroDivisionError")
        ELSE Returns([key \in keys |-> exact[key].value])

\* The keys whose value lies exactly halfway between two hundredths.
TieKeys(exact) ==
    IF exact.raises # None
    THEN {}
    ELSE {key \in DOMAIN exact.value : IsTie(exact.value[key])}

\* The dict compute returns: each value rounded to two decimals.  `ups` are
\* the keys whose halfway value is rounded up.
rounded(exact, ups) ==
    IF exact.raises # None
    THEN exact
    ELSE Returns([key \in DOMAIN exact.value |-> round2(exact.value[key], key \in ups)])

\* A faulty test that never takes the shortcut.
no_videos_never(video_count) == video_count < 0

\* `if video_count == 0`
no_videos(video_count) == video_count = 0

\* Correlator.compute
compute(videos, text, audio, ups) ==
    IF no_videos(Len(videos))
    THEN Returns(<<>>)
    ELSE rounded(unrounded(videos, text, audio), ups)

\* The metadata of the first record of tests/test_correlator.py, with no
\* view counted.
MetadataTemplate ==
    [likes |-> PyInt(100), comments |-> PyInt(2), shares |-> PyInt(50),
     views |-> PyInt(0)]

\* Metadata with no field, one field, three fields or all four, one more
\* like count, and values that are no number: a string and None.
MetadataUniverse ==
    {[field \in present |-> MetadataTemplate[field]] :
         present \in {fields \in SUBSET Range(metadata_fields) : Cardinality(fields) # 2}}
    \cup {[likes |-> PyInt(200)],
          [likes |-> PyStr("many")],
          [likes |-> PyInt(100), views |-> PyNone]}

\* The comments of a record: two for the record with all four fields, one
\* for the record with none, no comment otherwise.
CommentsOf(metadata) ==
    IF DOMAIN metadata = Range(metadata_fields) THEN <<"c1", "c2">>
    ELSE IF DOMAIN metadata = {} THEN <<"c1">>
    ELSE <<>>

\* The records compute may be given.
RecordUniverse ==
    {[url |-> "u1", comments |-> CommentsOf(metadata), metadata |-> metadata] :
         metadata \in MetadataUniverse}

\* The score dicts compute may be given: empty, one label beside a key that
\* is no label, and the classifiers' offline dicts.
TextScoreUniverse ==
    {<<>>,
     [joy |-> 40, trust |-> 50],
     text_dummy_scores}
AudioScoreUniverse ==
    {<<>>,
     [joy |-> 40],
     audio_dummy_scores}

CorrelatorInit ==
    /\ video_data \in UNION {[1..n -> RecordUniverse] : n \in 0..MaxRecords}
    /\ text_scores \in TextScoreUniverse
    /\ audio_scores \in AudioScoreUniverse
    /\ computed = FALSE
    /\ compute_raises = None
    /\ results = <<>>

\* correlator.compute(video_data, text_scores, audio_scores).  The halfway
\* values of a call are explored rounded all down and rounded all up, which
\* gives every entry each of the two values it may take.
Compute ==
    /\ ~computed
    /\ \E ups \in {{}, TieKeys(unrounded(video_data, text_scores, audio_scores))} :
           LET outcome == compute(video_data, text_scores, audio_scores, ups)
           IN  /\ compute_raises' = outcome.raises
               /\ results' = IF outcome.raises = None THEN outcome.value ELSE <<>>
    /\ computed' = TRUE
    /\ UNCHANGED <<video_data, text_scores, audio_scores>>
    /\ UNCHANGED <<scraper_vars, chat_vars, emotion_vars, finder_vars, insight_vars>>

InitCorrelator == CorrelatorInit /\ ScraperIdle /\ ChatIdle /\ EmotionIdle /\ FinderIdle /\ InsightIdle

NextCorrelator == Compute

SpecCorrelator == InitCorrelator /\ [][NextCorrelator]_vars

\* ---------------------------------------------------------------------
\* Properties of Correlator.compute
\* ---------------------------------------------------------------------

\* The 28 keys "{emotion}_vs_{field}" and the 7 keys "{emotion}_comment_ratio".
EmotionNames == {"joy", "sadness", "anger", "fear", "surprise", "disgust", "neutral"}
FieldNames == {"likes", "comments", "shares", "views"}
ExpectedVsKeys == {e \o "_vs_" \o f : e \in EmotionNames, f \in FieldNames}
ExpectedRatioKeys == {e \o "_comment_ratio" : e \in EmotionNames}

\* compute was called on at least one record and returned its output.
ComputedNonEmpty == computed /\ Len(video_data) > 0 /\ compute_raises = None

\* The comments of all the records together.
TotalComments ==
    Cardinality(UNION {{<<i, j>> : j \in 1..Len(video_data[i].comments)} :
                           i \in 1..Len(video_data)})

\* C17: for non-empty records, whatever fields each record's metadata holds
\* and whatever the score maps are, the output compute returns holds exactly
\* the 28 keys
\* "{emotion}_vs_{field}", one per emotion and field; its other keys are
\* comment ratios.
C17_TwentyEightVsKeys ==
    ComputedNonEmpty =>
        /\ ExpectedVsKeys \subseteq DOMAIN results
        /\ (DOMAIN results) \ ExpectedRatioKeys = ExpectedVsKeys
        /\ Cardinality((DOMAIN results) \ ExpectedRatioKeys) = 28

\* compute returned the 28 keys for records of which one has no metadata
\* field and another has only some, under score maps that lack labels.
C17_Witness ==
    /\ ComputedNonEmpty
    /\ \E i \in 1..Len(video_data) : DOMAIN video_data[i].metadata = {}
    /\ \E i \in 1..Len(video_data) : Cardinality(DOMAIN video_data[i].metadata) = 1
    /\ text_scores = <<>>
    /\ DOMAIN audio_scores = {"joy"}
    /\ Cardinality((DOMAIN results) \cap ExpectedVsKeys) = 28

\* C18: the output holds "{emotion}_comment_ratio" keys exactly when the
\* records have comments: none of them when the total comment count is 0,
\* all 7 when it is above 0; the 28 "_vs_" keys are there in both cases.
C18_CommentRatioIffComments ==
    ComputedNonEmpty =>
        /\ ExpectedVsKeys \subseteq DOMAIN results
        /\ TotalComments = 0 => (DOMAIN results) \cap ExpectedRatioKeys = {}
        /\ TotalComments > 0 => ExpectedRatioKeys \subseteq DOMAIN results

\* compute returned the 7 comment ratios for records with comments.
C18_Witness ==
    /\ ComputedNonEmpty
    /\ TotalComments > 0
    /\ Cardinality((DOMAIN results) \cap ExpectedRatioKeys) = 7
    /\ Cardinality(DOMAIN results) = 35

\* The score of a label in a score map, 0 for a label the map lacks, in
\* hundredths.
ScoreOr0(scores, e) == IF e \in DOMAIN scores THEN scores[e] ELSE 0

\* The sum of a field over the records from the i-th on, a record lacking
\* the field contributing 0.
RECURSIVE FieldSumFrom(_, _)
FieldSumFrom(f, i) ==
    IF i > Len(video_data)
    THEN 0
    ELSE (IF f \in DOMAIN video_data[i].metadata THEN video_data[i].metadata[f].num ELSE 0)
         + FieldSumFrom(f, i + 1)
FieldSum(f) == FieldSumFrom(f, 1)

\* r hundredths is num / den rounded to two decimals, num / den being the
\* value itself (not in hundredths) and den positive.
IsRound2(r, num, den) ==
    LET distance == IF r * den >= 100 * num THEN r * den - 100 * num
                    ELSE 100 * num - r * den
    IN  2 * distance <= den

\* combined[e] / fieldMean[f] * 100 with combined[e] = (T + A) / 200 for
\* scores of T and A hundredths and fieldMean[f] = FieldSum(f) / count is
\* (T + A) * count / (2 * FieldSum(f)).
VsValueIsRatio(e, f) ==
    LET entry == results[e \o "_vs_" \o f]
    IN  IF FieldSum(f) > 0
        THEN IsRound2(entry,
                      (ScoreOr0(text_scores, e) + ScoreOr0(audio_scores, e))
                          * Len(video_data),
                      2 * FieldSum(f))
        ELSE entry = 0

RatioFormulaHolds ==
    ComputedNonEmpty =>
        \A e \in EmotionNames, f \in FieldNames :
            /\ (e \o "_vs_" \o f) \in DOMAIN results
            /\ VsValueIsRatio(e, f)

\* Two records with likes 100 and 200 and a combined joy of 0.4.
RatioExample ==
    /\ computed
    /\ Len(video_data) = 2
    /\ \E i \in 1..2 : video_data[i].metadata = [likes |-> PyInt(100)]
    /\ \E i \in 1..2 : video_data[i].metadata = [likes |-> PyInt(200)]
    /\ ScoreOr0(text_scores, "joy") + ScoreOr0(audio_scores, "joy") = 80

\* C19 as stated: every "{e}_vs_{f}" entry is
\* round(combined[e] / fieldMean[f] * 100, 2) for a positive field mean and
\* 0.0 otherwise, and two records with likes 100 and 200 and combined joy
\* 0.4 give joy_vs_likes = 26.67.
C19_RatioValuesAsStated ==
    /\ RatioFormulaHolds
    /\ RatioExample => results["joy_vs_likes"] = 2667

\* C19: every "{e}_vs_{f}" entry is round(combined[e] / fieldMean[f] * 100, 2)
\* for a positive field mean, the mean dividing by the number of all records,
\* and 0.0 otherwise; two records with likes 100 and 200 and combined joy 0.4
\* give joy_vs_likes = round(0.4 / 150 * 100, 2) = 0.27.
C19_RatioValues ==
    /\ RatioFormulaHolds
    /\ RatioExample => results["joy_vs_likes"] = 27

\* compute returned the ratio of the example, and 0.0 for a field no record
\* of the example has.
C19_Witness ==
    /\ RatioExample
    /\ results["joy_vs_likes"] = 27
    /\ results["joy_vs_shares"] = 0

\* C20: for non-empty records in which a field's mean is exactly 0 (the
\* field absent from every record, or 0 in every record that has it), the
\* entry "{emotion}_vs_{field}" is exactly 0.0 for all 7 emotions, whatever
\* the scores are; no division by the mean is attempted.
C20_ZeroMeanGivesZero ==
    /\ computed => compute_raises # "ZeroDivisionError"
    /\ ComputedNonEmpty =>
           \A f \in FieldNames :
               (\A i \in 1..Len(video_data) :
                    f \in DOMAIN video_data[i].metadata
                        => video_data[i].metadata[f] = PyInt(0))
               => \A e \in EmotionNames :
                      /\ (e \o "_vs_" \o f) \in DOMAIN results
                      /\ results[e \o "_vs_" \o f] = 0

\* compute returned 0.0 for a field some record holds with value 0, under
\* scores that are not 0, beside a field with a positive mean.
C20_Witness ==
    /\ ComputedNonEmpty
    /\ \E i \in 1..Len(video_data) :
           /\ "views" \in DOMAIN video_data[i].metadata
           /\ video_data[i].metadata["views"] = PyInt(0)
    /\ ScoreOr0(text_scores, "joy") + ScoreOr0(audio_scores, "joy") > 0
    /\ results["joy_vs_views"] = 0
    /\ results["joy_vs_likes"] > 0

\* C21: compute is total and pure: for all records, also those whose
\* metadata holds a non-numeric string or None under likes, comments, shares
\* or views, and all score maps, it returns a map without raising, and it
\* leaves the records and the score maps as they were.
C21_ComputeTotalAndPure ==
    /\ [](computed => compute_raises = None)
    /\ [][/\ video_data' = video_data
          /\ text_scores' = text_scores
          /\ audio_scores' = audio_scores]_vars

\* C22: for an empty record sequence compute returns the empty map, whatever
\* the score maps are: no key is emitted and no division is attempted.
C22_EmptyInputGivesEmptyMap ==
    (computed /\ Len(video_data) = 0) =>
        /\ compute_raises = None
        /\ DOMAIN results = {}

\* compute returned the empty map for no record and score maps that are not
\* empty.
C22_Witness ==
    /\ computed
    /\ Len(video_data) = 0
    /\ text_scores = text_dummy_scores
    /\ audio_scores = audio_dummy_scores
    /\ results = <<>>

\* C30: the count that gates and divides the "{emotion}_comment_ratio"
\* entries is the number of comment strings of all the records, whatever the
\* metadata field named comments holds: without a comment string no such key
\* is in the output, with one or more all seven are, each
\* round(combined[e] * 100 / count, 2).
C30_RatioCountsCommentStrings ==
    ComputedNonEmpty =>
        /\ TotalComments = 0 => (DOMAIN results) \cap ExpectedRatioKeys = {}
        /\ TotalComments > 0 =>
               \A e \in EmotionNames :
                   /\ (e \o "_comment_ratio") \in DOMAIN results
                   /\ IsRound2(results[e \o "_comment_ratio"],
                               ScoreOr0(text_scores, e) + ScoreOr0(audio_scores, e),
                               2 * TotalComments)

\* compute returned the seven ratios for records that have comment strings
\* and no metadata field named comments.
C30_Witness ==
    /\ ComputedNonEmpty
    /\ Len(video_data) = 2
    /\ \A i \in 1..2 : /\ "comments" \notin DOMAIN video_data[i].metadata
                       /\ Len(video_data[i].comments) = 1
    /\ ScoreOr0(text_scores, "joy") + ScoreOr0(audio_scores, "joy") = 80
    /\ ExpectedRatioKeys \subseteq DOMAIN results
    /\ results["joy_comment_ratio"] = 2000

\* compute returned no ratio for records whose metadata counts comments and
\* whose comment lists are empty.
C30_NoStringsNoRatio ==
    /\ ComputedNonEmpty
    /\ \E i \in 1..Len(video_data) :
           /\ "comments" \in DOMAIN video_data[i].metadata
           /\ video_data[i].metadata["comments"].num > 0
    /\ TotalComments = 0
    /\ (DOMAIN results) \cap ExpectedRatioKeys = {}

\* ---------------------------------------------------------------------
\* VideoFinder (src/src/video_finder.py)
\* ---------------------------------------------------------------------
MaxLookups == 2   \* most get_videos calls explored in one behaviour

\* Strings the finder inspects are sequences of characters.  The literal
\* parts of the pattern and of the mapped URLs:
Text ==
    [http |-> <<"h", "t", "t", "p">>,
     ftp |-> <<"f", "t", "p">>,
     colon_slashes |-> <<":", "/", "/">>,
     www |-> <<"w", "w", "w">>,
     vm |-> <<"v", "m">>,
     tiktok_com |-> <<".", "t", "i", "k", "t", "o", "k", ".", "c", "o", "m">>,
     example_com |-> <<"e", "x", "a", "m", "p", "l", "e", ".", "c", "o", "m">>,
     cooking |-> <<"c", "o", "o", "k", "i", "n", "g">>,
     fitness |-> <<"f", "i", "t", "n", "e", "s", "s">>,
     video |-> <<"/", "v", "i", "d", "e", "o">>,
     user_path |-> <<"@", "u", "_", "-", ".", "/", "V", "/", "9">>]

\* "https://www.tiktok.com/"
TiktokRoot ==
    Text.http \o <<"s">> \o Text.colon_slashes \o Text.www \o Text.tiktok_com \o <<"/">>

\* self._video_mapping: for each topic, video1 .. video10 under the topic's
\* path.
video_mapping ==
    LET number == <<<<"1">>, <<"2">>, <<"3">>, <<"4">>, <<"5">>, <<"6">>, <<"7">>,
                    <<"8">>, <<"9">>, <<"1", "0">>>>
    IN  [cooking |-> [k \in 1..10 |-> TiktokRoot \o Text.cooking \o Text.video \o number[k]],
         fitness |-> [k \in 1..10 |-> TiktokRoot \o Text.fitness \o Text.video \o number[k]]]

\* The class [@a-zA-Z0-9_\-./]
PathChars ==
    {"a", "b", "c", "d", "e", "f", "g", "h", "i", "j", "k", "l", "m",
     "n", "o", "p", "q", "r", "s", "t", "u", "v", "w", "x", "y", "z",
     "A", "B", "C", "D", "E", "F", "G", "H", "I", "J", "K", "L", "M",
     "N", "O", "P", "Q", "R", "S", "T", "U", "V", "W", "X", "Y", "Z",
     "0", "1", "2", "3", "4", "5", "6", "7", "8", "9",
     "@", "_", "-", ".", "/"}

\* `$`: the end of the string, or just before a line break that ends it.
end_of_string(url, i) ==
    \/ i = Len(url) + 1
    \/ i = Len(url) /\ url[i] = "\n"

\* re.match(r'^https?://(www|vm)\.tiktok\.com/[@a-zA-Z0-9_\-./]+$', url)
is_valid_tiktok_url(url) ==
    LET \* the position after `lit` when url holds it at position i, else 0
        after(i, lit) ==
            IF i > 0 /\ i + Len(lit) - 1 <= Len(url)
                     /\ SubSeq(url, i, i + Len(lit) - 1) = lit
            THEN i + Len(lit)
            ELSE 0
        scheme == after(1, Text.http)
        s == IF after(scheme, <<"s">>) > 0 THEN after(scheme, <<"s">>) ELSE scheme
        host == after(s, Text.colon_slashes)
        domain == IF after(host, Text.www) > 0 THEN after(host, Text.www)
                  ELSE after(host, Text.vm)
        path == after(after(domain, Text.tiktok_com), <<"/">>)
    IN  /\ path > 0
        /\ \E stop \in (path + 1)..(Len(url) + 1) :
               /\ \A k \in path..(stop - 1) : url[k] \in PathChars
               /\ end_of_string(url, stop)

\* An optional string argument: not given (None), or the characters given.
NoString == [given |-> FALSE, chars |-> <<>>]
String(chars) == [given |-> TRUE, chars |-> chars]

\* A faulty lookup that indexes the mapping.
lookup_by_index(topic) ==
    IF topic \in DOMAIN video_mapping THEN Returns(video_mapping[topic])
    ELSE Raises("KeyError")

\* self._video_mapping.get(topic, [])
lookup(topic) == Returns(DictGet(video_mapping, topic, <<>>))

\* VideoFinder.get_videos(topic, direct_url)
get_videos(topic, direct_url) ==
    IF direct_url.given /\ direct_url.chars # <<>>
    THEN IF is_valid_tiktok_url(direct_url.chars)
         THEN Returns(<<direct_url.chars>>)
         ELSE Returns(<<>>)
    ELSE lookup(topic)

\* The direct URLs of the calls explored: the tests' kinds of URL, the empty
\* string, and URLs around a line break.
DirectUrls ==
    LET v1 == <<"v", "/", "1">>
        root(scheme, host) == scheme \o Text.colon_slashes \o host \o <<"/">>
    IN  {NoString,
         String(<<>>),
         String(TiktokRoot \o v1),
         String(root(Text.http, Text.vm \o Text.tiktok_com) \o Text.user_path),
         String(root(Text.ftp, Text.www \o Text.tiktok_com) \o v1),
         String(root(Text.http \o <<"s">>, Tail(Text.tiktok_com)) \o v1),
         String(root(Text.http \o <<"s">>, Text.example_com) \o v1),
         String(TiktokRoot),
         String(TiktokRoot \o v1 \o <<"<">>),
         String(<<" ">> \o TiktokRoot \o v1),
         String(TiktokRoot \o v1 \o <<"\n">>),
         String(TiktokRoot \o v1 \o <<"\n", "\n">>),
         String(TiktokRoot \o <<"\n">> \o v1)}

\* finder.get_videos(topic) or finder.get_videos(topic, direct_url=...)
GetVideos ==
    /\ Len(get_videos_calls) < MaxLookups
    /\ \E topic \in {"cooking", "fitness", "no_such_topic"}, direct_url \in DirectUrls :
           get_videos_calls' =
               Append(get_videos_calls,
                      [topic |-> topic, direct_url |-> direct_url,
                       outcome |-> get_videos(topic, direct_url)])
    /\ UNCHANGED <<scraper_vars, chat_vars, emotion_vars, correlator_vars, insight_vars>>

InitFinder ==
    get_videos_calls = <<>> /\ ScraperIdle /\ ChatIdle /\ EmotionIdle /\ CorrelatorIdle /\ InsightIdle
NextFinder == GetVideos
SpecFinder == InitFinder /\ [][NextFinder]_vars

\* ---------------------------------------------------------------------
\* Properties of VideoFinder
\* ---------------------------------------------------------------------

\* The grammar of a platform URL: scheme http or https, host exactly
\* www.tiktok.com or vm.tiktok.com, then "/" and a non-empty path made only
\* of letters, digits and @ _ - . /
MatchesGrammar(url) ==
    \E scheme \in {Text.http, Text.http \o <<"s">>}, host \in {Text.www, Text.vm} :
        LET head == scheme \o Text.colon_slashes \o host \o Text.tiktok_com \o <<"/">>
        IN  /\ Len(url) > Len(head)
            /\ SubSeq(url, 1, Len(head)) = head
            /\ \A k \in (Len(head) + 1)..Len(url) : url[k] \in PathChars

\* C23: get_videos with a direct URL u, for every topic: when u matches the
\* grammar the result is exactly [u]; for every other string u, the empty
\* string and a URL followed by a line break included, the result is [].
C23_DirectUrlExactlyOrNothing ==
    \A i \in DOMAIN get_videos_calls :
        LET call == get_videos_calls[i]
        IN  call.direct_url.given =>
                /\ call.outcome.raises = None
                /\ call.outcome.value = IF MatchesGrammar(call.direct_url.chars)
                                        THEN <<call.direct_url.chars>>
                                        ELSE <<>>

\* C24: get_videos with no direct URL returns the empty list for a topic
\* that is not in the mapping and the topic's 10 URLs, in their fixed order,
\* for cooking and fitness; it never raises, and calls with the same topic
\* give the same result.
C24_TopicLookup ==
    \A i \in DOMAIN get_videos_calls :
        LET call == get_videos_calls[i]
        IN  ~call.direct_url.given =>
                /\ call.outcome.raises = None
                /\ call.topic \notin {"cooking", "fitness"} => call.outcome.value = <<>>
                /\ call.topic \in {"cooking", "fitness"} =>
                       /\ Len(call.outcome.value) = 10
                       /\ \A k \in 1..10 : \A j \in 1..10 :
                              k # j => call.outcome.value[k] # call.outcome.value[j]
                       /\ call.outcome.value[1] =
                              TiktokRoot \o Text[call.topic] \o Text.video \o <<"1">>
                       /\ call.outcome.value[10] =
                              TiktokRoot \o Text[call.topic] \o Text.video \o <<"1", "0">>
                /\ \A j \in DOMAIN get_videos_calls :
                       (~get_videos_calls[j].direct_url.given
                            /\ get_videos_calls[j].topic = call.topic)
                       => get_videos_calls[j].outcome = call.outcome

\* A known topic was looked up twice without a direct URL.
C24_Witness ==
    /\ Len(get_videos_calls) = 2
    /\ \A i \in 1..2 : /\ ~get_videos_calls[i].direct_url.given
                       /\ get_videos_calls[i].topic = "cooking"
                       /\ Len(get_videos_calls[i].outcome.value) = 10

\* ---------------------------------------------------------------------
\* InsightGenerator (src/src/insight_generator.py), constructed without a
\* vector index: _search_relevant_guidelines returns guideline chunks and
\* touches nothing else.
\* ---------------------------------------------------------------------
MaxCount == 4   \* largest n_insights / n_hooks explored

\* The lists returned without a client.
dummy_insights ==
    <<"Videos with high joy scores receive 25% more likes than average.",
      "Content with surprise elements generates 40% more comments.",
      "Neutral content performs better for long-term viewer retention.">>
dummy_hooks ==
    <<"Discover the emotional secret behind our most engaging content",
      "How we increased engagement by 40% with one simple emotional trigger">>

\* InsightGenerator.__init__: the key given or else OPENAI_API_KEY of the
\* environment; a client unless that key is missing, empty or "dummy".
InsightGenerator(openai_api_key, environ_key) ==
    LET key == IF Truthy(openai_api_key) THEN openai_api_key ELSE environ_key
    IN  [constructed |-> TRUE, openai_api_key |-> key,
         client |-> IF Truthy(key) /\ key # "dummy" THEN "OpenAI" ELSE None]

\* What chat.completions.create may do in generate and suggest_pr_hooks.
InsightReplies ==
    {[raises |-> "APIConnectionError", choices |-> 0, content |-> None],
     [raises |-> None, choices |-> 0, content |-> None],
     [raises |-> None, choices |-> 1, content |-> None]}
    \cup {[raises |-> None, choices |-> 1, content |-> s] :
            s \in {"not json", "[]", "[\"joy\"]", "{}", "null",
                   "{\"insights\": [\"i1\", \"i2\", \"i3\"]}",
                   "{\"hooks\": [\"h1\", \"h2\", \"h3\"]}",
                   "{\"insights\": null}"}}

\* The body of the try block of generate (key "insights") and of
\* suggest_pr_hooks (key "hooks"): response.choices[0].message.content,
\* json.loads, result.get(key, []), the slice [:n].  `result` is a dict
\* whenever .get succeeded, so `isinstance(result, list)` is false there.
parse_list(response, key, n) ==
    IF response.choices = 0
    THEN Raises("IndexError")
    ELSE IF response.content = None
    THEN Raises("TypeError")
    ELSE LET loaded == json_loads(response.content)
         IN  IF loaded.raises # None
             THEN loaded
             ELSE IF loaded.value.type # "dict"
             THEN Raises("AttributeError")
             ELSE LET got == IF \E k \in DOMAIN loaded.value.keys :
                                    loaded.value.keys[k] = key
                             THEN loaded.value.members[key]
                             ELSE PyList(<<>>)
                  IN  IF got.type # "list"
                      THEN Raises("TypeError")
                      ELSE Returns(Take([i \in DOMAIN got.elems |-> got.elems[i].text], n))

\* insight[:20]
first_20(insight) ==
    CASE insight = dummy_insights[1] -> "Videos with high joy"
      [] insight = dummy_insights[2] -> "Content with surpris"
      [] insight = dummy_insights[3] -> "Neutral content perf"
      [] OTHER -> insight

\* The list built in generate's except clause; `correlations` is the
\* sequence of the dict's keys.  list(correlations.keys())[0] raises on an
\* empty dict.
fallback_insights(correlations) ==
    IF Len(correlations) = 0
    THEN Raises("IndexError")
    ELSE Returns(<<"Correlation analysis shows interesting patterns in "
                       \o correlations[1] \o ".",
                   "There appears to be a relationship between emotions and engagement metrics.">>)

\* The list built in suggest_pr_hooks's except clause; insights[0] raises on
\* an empty list.
fallback_hooks(insights) ==
    IF Len(insights) = 0
    THEN Raises("IndexError")
    ELSE Returns(<<"New data reveals surprising connection in "
                       \o first_20(insights[1]) \o "...",
                   "How our content strategy revealed unexpected audience preferences">>)

\* One call of generate or suggest_pr_hooks: without a client the dummy
\* list sliced; with one, the generative call (outside the try), then the
\* try block, whose `except Exception` builds and slices the fallback list.
insight_call(self, method, argument, n, reply) ==
    LET key == IF method = "generate" THEN "insights" ELSE "hooks"
        tried == parse_list(reply, key, n)
        fallback == IF method = "generate" THEN fallback_insights(argument)
                    ELSE fallback_hooks(argument)
        call == [method |-> method, argument |-> argument, n |-> n,
                 chat_called |-> FALSE, parse_raises |-> None,
                 raises |-> None, returns |-> <<>>]
    IN  IF self.client = None
        THEN [call EXCEPT !.returns =
                  Take(IF method = "generate" THEN dummy_insights ELSE dummy_hooks, n)]
        ELSE IF reply.raises # None
        THEN [call EXCEPT !.chat_called = TRUE, !.raises = reply.raises]
        ELSE IF tried.raises = None
        THEN [call EXCEPT !.chat_called = TRUE, !.returns = tried.value]
        ELSE IF fallback.raises # None
        THEN [call EXCEPT !.chat_called = TRUE, !.parse_raises = tried.raises,
                          !.raises = fallback.raises]
        ELSE [call EXCEPT !.chat_called = TRUE, !.parse_raises = tried.raises,
                          !.returns = Take(fallback.value, n)]

\* The generator of a behaviour: every way to give or withhold the key.
InsightInit ==
    /\ generator \in {InsightGenerator(k, e) : k \in {None, "", "dummy", "sk-live"},
                                               e \in {None, "sk-env"}}
    /\ insight_calls = <<>>

\* generator.generate(correlations, n_insights)
Generate ==
    /\ insight_calls = <<>>
    /\ \E correlations \in {<<>>, <<"joy_vs_likes">>, <<"fear_vs_views", "joy_vs_likes">>},
          n \in 1..MaxCount,
          reply \in IF generator.client = None THEN {NoResponse} ELSE InsightReplies :
           insight_calls' = <<insight_call(generator, "generate", correlations, n, reply)>>
    /\ UNCHANGED generator
    /\ UNCHANGED <<scraper_vars, chat_vars, emotion_vars, correlator_vars, finder_vars>>

\* generator.suggest_pr_hooks(insights, n_hooks)
SuggestPrHooks ==
    /\ insight_calls = <<>>
    /\ \E insights \in {<<>>, <<"Joy wins.">>, dummy_insights},
          n \in 1..MaxCount,
          reply \in IF generator.client = None THEN {NoResponse} ELSE InsightReplies :
           insight_calls' = <<insight_call(generator, "suggest_pr_hooks", insights, n, reply)>>
    /\ UNCHANGED generator
    /\ UNCHANGED <<scraper_vars, chat_vars, emotion_vars, correlator_vars, finder_vars>>

InitInsight ==
    InsightInit /\ ScraperIdle /\ ChatIdle /\ EmotionIdle /\ CorrelatorIdle /\ FinderIdle
NextInsight == Generate \/ SuggestPrHooks
SpecInsight == InitInsight /\ [][NextInsight]_vars

\* ---------------------------------------------------------------------
\* Properties of InsightGenerator
\* ---------------------------------------------------------------------

\* C25: without a live credential, generate(correlations, n) returns exactly
\* n canned strings for every n >= 1, truncated or padded, and
\* suggest_pr_hooks(insights, n) likewise returns exactly n strings.
C25_OfflineReturnsExactlyN ==
    \A i \in DOMAIN insight_calls :
        LET call == insight_calls[i]
        IN  (generator.client = None /\ call.n >= 1) =>
                /\ call.raises = None
                /\ ~call.chat_called
                /\ Len(call.returns) = call.n

\* C26: with a live credential, a failure to parse the API's response never
\* leaves the generator: for every correlation map and every insight list,
\* the empty ones included, the call returns its templated fallback list
\* truncated to n and does not raise.
C26_ParseFailureFallsBack ==
    \A i \in DOMAIN insight_calls :
        LET call == insight_calls[i]
        IN  (generator.client # None /\ call.parse_raises # None) =>
                /\ call.raises = None
                /\ Len(call.returns) = (IF call.n < 2 THEN call.n ELSE 2)
                /\ call.returns[1] # ""

\* ---------------------------------------------------------------------
\* Properties of chat_endpoint's pipeline
\* ---------------------------------------------------------------------

\* C27: the job handle start_scrape returns for a request is the handle
\* passed to get_result for that request, so that the request's status
\* polls are keyed by the handle its own submission produced.
C27_HandlePassedToGetResult ==
    (\E i \in DOMAIN calls : calls[i] = "get_result") =>
        /\ started_job \in JobIds
        /\ get_result_args = <<started_job>>

\* The eight stages in their order.
Stages ==
    <<"get_videos", "start_scrape", "get_result", "text_analyze", "audio_analyze",
      "compute", "generate", "suggest_pr_hooks">>

StagesInOrder ==
    /\ Len(calls) <= Len(Stages)
    /\ calls = SubSeq(Stages, 1, Len(calls))
    /\ Len(calls) >= 2 => located # <<>> /\ video_urls # <<>>
    /\ Len(calls) >= 4 => video_data_list # <<>>
    /\ exc.stage # None =>
           /\ cpc = "responded"
           /\ status_code \in {502, 504}
           /\ exc.stage \in {calls[Len(calls)], "Scraper"}
    /\ status_code \in {404, 502, 504} => cpc = "responded"
    /\ status_code = 200 => calls = Stages /\ exc.stage = None

\* C28: chat_endpoint runs its stages in the order locate, start_scrape,
\* get_result, text analyze, audio analyze, correlate, generate insights,
\* suggest hooks; a stage is invoked only if every earlier one completed
\* without error and without an empty result; once the request has ended
\* with 404, 502 or 504 no later stage is invoked; a 200 response is
\* produced only after all eight completed.
C28_StagesInFixedOrder ==
    /\ []StagesInOrder
    /\ [][status_code # 0 => calls' = calls]_vars

\* A request answered 200 after its eight stages.
C28_Witness ==
    /\ status_code = 200
    /\ calls = Stages
    /\ Len(video_urls) = 2

\* ---------------------------------------------------------------------
\* Bounded polling of get_result
\* ---------------------------------------------------------------------

\* Between two consecutive status polls lie the first one's request and one
\* sleep of poll_interval; at most ceil(timeout / poll_interval) polls are
\* issued, none for a timeout of 0 or less; a call that has ended returned
\* records or raised.
PollingBounded ==
    OnWebhook =>
        /\ \A i \in 1..(Len(polls) - 1) :
               (polls[i + 1].at - polls[i].at - poll_interval) \in 0..MaxLatency
        /\ Len(polls) <= (timeout + poll_interval - 1) \div poll_interval
        /\ timeout <= 0 => polls = <<>>
        /\ pc = "done" /\ submit.state = "returned" => (returned \/ raised # None)
        /\ ~(returned /\ raised # None)

====
